---------------------------- MODULE Spec2Model ----------------------------
(***************************************************************************)
(* Hybrid recommendation service (server/services/recommender.py and       *)
(* server/api/endpoints/recommendations.py).                               *)
(*                                                                         *)
(* Units.  Raw scores (similarities, popularity scores, rating estimates)  *)
(* are integers counting hundredths; weights are integers counting tenths; *)
(* blended scores are therefore integers counting thousandths.  The two    *)
(* divisions of the code (ensemble /10 of the tenths weights, mean over    *)
(* the seed products) are exact on the values the tables below hold.       *)
(***************************************************************************)
EXTENDS Integers, Sequences, FiniteSets, TLC

VARIABLES
    interactions_df,      \* rows [userId, productId] of interactions.csv
    products_df,          \* the column products_df['product_id']
    product_similarity_df,\* [index, at]: the square item-item similarity frame
    db_products,          \* catalog: sequence of entries keyed by "_id"
    oracle,               \* which predictions of the three models fail
    product_popularity,   \* product_popularity.pkl as load_models() reads it
    cache,                \* cold_start_cache.json: [exists, content]
    now,                  \* datetime.now(), in hours
    resp,                 \* outcome of the last request handled
    workers               \* position of each worker inside handle_cold_start_user

vars == <<interactions_df, products_df, product_similarity_df, db_products,
          oracle, product_popularity, cache, now, resp, workers>>

(***************************************************************************)
(* Bounds of the model.                                                    *)
(***************************************************************************)
MaxN == 3
MaxTicks == 2
TickHours == 60
MaxPartial == 1

(***************************************************************************)
(* Program constants.                                                      *)
(***************************************************************************)
CACHE_DURATION_HOURS == 120
HYBRID_CF_WEIGHT == 5
HYBRID_CB_WEIGHT == 3
HYBRID_POP_WEIGHT == 2
ANCHOR_CONTENT_WEIGHT == 6
ANCHOR_CF_WEIGHT == 2
ANCHOR_POP_WEIGHT == 2
SVD_WEIGHT == 4
NMF_WEIGHT == 2
KNN_WEIGHT == 4

(***************************************************************************)
(* Sequence helpers standing for the list, dict and DataFrame idioms.      *)
(***************************************************************************)
Min(a, b) == IF a < b THEN a ELSE b

Range(s) == {s[i] : i \in DOMAIN s}

\* s[:n] / DataFrame.head(n), for n >= 0
Take(s, n) == SubSeq(s, 1, Min(n, Len(s)))

\* pandas unique(): first occurrences, in order of appearance
RECURSIVE Unique(_)
Unique(s) ==
    IF s = <<>> THEN <<>>
    ELSE LET u == Unique(SubSeq(s, 1, Len(s) - 1))
             x == s[Len(s)]
         IN IF x \in Range(u) THEN u ELSE Append(u, x)

\* faulty variant of SortDesc: reverse=True forgotten: ascending order
RECURSIVE SortAscending(_)
SortAscending(s) ==
    IF s = <<>> THEN <<>>
    ELSE LET rest == SortAscending(SubSeq(s, 1, Len(s) - 1))
             x == s[Len(s)]
             below == SelectSeq(rest, LAMBDA y : y.score <= x.score)
             above == SelectSeq(rest, LAMBDA y : y.score > x.score)
         IN below \o <<x>> \o above

\* insertion of x in a list sorted by descending score, after its equals
RECURSIVE InsertDesc(_, _)
InsertDesc(sorted, x) ==
    IF sorted = <<>> THEN <<x>>
    ELSE IF sorted[1].score >= x.score
         THEN <<sorted[1]>> \o InsertDesc(Tail(sorted), x)
         ELSE <<x>> \o sorted

\* sorted(items, key=score, reverse=True): stable, descending
RECURSIVE SortDesc(_)
SortDesc(s) ==
    IF s = <<>> THEN <<>>
    ELSE InsertDesc(SortDesc(SubSeq(s, 1, Len(s) - 1)), s[Len(s)])

\* a dict as the sequence of its items [product_id, score] in insertion order
DictKeys(d) == {d[i].product_id : i \in DOMAIN d}

\* the product ids of a list of (product_id, score) items or table rows
ProductIds(items) == [i \in DOMAIN items |-> items[i].product_id]

\* d[k] += v if k in d else d[k] = v
DictAdd(d, k, v) ==
    IF k \in DictKeys(d)
    THEN [i \in DOMAIN d |->
            IF d[i].product_id = k
            THEN [product_id |-> k, score |-> d[i].score + v] ELSE d[i]]
    ELSE Append(d, [product_id |-> k, score |-> v])

\* d[k] = v
DictSet(d, k, v) ==
    IF k \in DictKeys(d)
    THEN [i \in DOMAIN d |->
            IF d[i].product_id = k
            THEN [product_id |-> k, score |-> v] ELSE d[i]]
    ELSE Append(d, [product_id |-> k, score |-> v])

(***************************************************************************)
(* The trained models.  predict(user, product).est is a fixed table; the   *)
(* variable oracle holds the <<model, product>> pairs whose predict raises.*)
(***************************************************************************)
Estimate(model, product_id) ==
    CASE model = "svd" -> (CASE product_id = "P1" -> 300 [] product_id = "P2" -> 200
                             [] product_id = "P3" -> 400 [] OTHER -> 100)
      [] model = "nmf" -> (CASE product_id = "P1" -> 250 [] product_id = "P2" -> 350
                             [] product_id = "P3" -> 150 [] OTHER -> 450)
      [] OTHER         -> (CASE product_id = "P1" -> 100 [] product_id = "P2" -> 500
                             [] product_id = "P3" -> 200 [] OTHER -> 300)

\* True when model.predict(user_id, product_id) raises
PredictFails(model, product_id) == <<model, product_id>> \in oracle

(***************************************************************************)
(* HybridRecommendationSystem                                              *)
(***************************************************************************)
\* faulty variant of UserKnown: the membership test always succeeds
UserKnownAlways(user_id) == user_id = user_id

\* user_id in interactions_df['userId'].unique()
UserKnown(user_id) ==
    \E i \in DOMAIN interactions_df : interactions_df[i].userId = user_id

get_user_interactions(user_id) ==
    IF UserKnown(user_id)
    THEN LET rows == SelectSeq(interactions_df, LAMBDA r : r.userId = user_id)
         IN Unique([i \in DOMAIN rows |-> rows[i].productId])
    ELSE <<>>

\* faulty variant of CollabPredictions: a failed prediction scores 0 instead of
\* dropping the candidate
RECURSIVE CollabPredictionsZero(_, _)
CollabPredictionsZero(ids, k) ==
    IF k = 0 THEN <<>>
    ELSE LET rest == CollabPredictionsZero(ids, k - 1)
             p == ids[k]
         IN IF \/ PredictFails("svd", p)
               \/ PredictFails("nmf", p)
               \/ PredictFails("knn", p)
            THEN Append(rest, [product_id |-> p, score |-> 0])
            ELSE Append(rest,
                   [product_id |-> p,
                    score |-> (SVD_WEIGHT * Estimate("svd", p)
                               + NMF_WEIGHT * Estimate("nmf", p)
                               + KNN_WEIGHT * Estimate("knn", p)) \div 10])

\* faulty variant of CollabPredictions: the try block encloses the loop, so
\* the first failed prediction ends the scoring
RECURSIVE CollabPredictionsAbort(_, _)
CollabPredictionsAbort(ids, k) ==
    IF k = 0 THEN <<>>
    ELSE LET rest == CollabPredictionsAbort(ids, k - 1)
             p == ids[k]
         IN IF \/ Len(rest) < k - 1
               \/ PredictFails("svd", p)
               \/ PredictFails("nmf", p)
               \/ PredictFails("knn", p)
            THEN rest
            ELSE Append(rest,
                   [product_id |-> p,
                    score |-> (SVD_WEIGHT * Estimate("svd", p)
                               + NMF_WEIGHT * Estimate("nmf", p)
                               + KNN_WEIGHT * Estimate("knn", p)) \div 10])

\* the try block of the prediction loop over products_to_predict_ids[1..k]
RECURSIVE CollabPredictions(_, _)
CollabPredictions(ids, k) ==
    IF k = 0 THEN <<>>
    ELSE LET rest == CollabPredictions(ids, k - 1)
             p == ids[k]
         IN IF \/ PredictFails("svd", p)
               \/ PredictFails("nmf", p)
               \/ PredictFails("knn", p)
            THEN rest
            ELSE Append(rest,
                   [product_id |-> p,
                    score |-> (SVD_WEIGHT * Estimate("svd", p)
                               + NMF_WEIGHT * Estimate("nmf", p)
                               + KNN_WEIGHT * Estimate("knn", p)) \div 10])

collaborative_recommendations(user_id, n_recommendations) ==
    LET all_product_ids == Unique(products_df)
        user_product_ids == Range(get_user_interactions(user_id))
        products_to_predict_ids ==
            SelectSeq(all_product_ids, LAMBDA p : p \notin user_product_ids)
        predictions ==
            CollabPredictions(products_to_predict_ids, Len(products_to_predict_ids))
    IN Take(SortDesc(predictions), n_recommendations)

\* the inner loop over similarities.items(): index[1..k] of one seed's column
RECURSIVE ContentAddColumn(_, _, _, _)
ContentAddColumn(recs, seed, user_set, k) ==
    IF k = 0 THEN recs
    ELSE LET r == ContentAddColumn(recs, seed, user_set, k - 1)
             idx == product_similarity_df.index[k]
         IN IF idx \notin user_set /\ idx # seed
            THEN DictAdd(r, idx, product_similarity_df.at[<<idx, seed>>])
            ELSE r

\* the outer loop over user_product_ids[1..k]
RECURSIVE ContentAccumulate(_, _)
ContentAccumulate(user_ids, k) ==
    IF k = 0 THEN <<>>
    ELSE LET r == ContentAccumulate(user_ids, k - 1)
             seed == user_ids[k]
         IN IF seed \in Range(product_similarity_df.index)
            THEN ContentAddColumn(r, seed, Range(user_ids),
                                  Len(product_similarity_df.index))
            ELSE r

content_based_recommendations(user_id, n_recommendations) ==
    LET user_product_ids == get_user_interactions(user_id)
    IN IF Len(user_product_ids) = 0 THEN <<>>
       ELSE LET sums == ContentAccumulate(user_product_ids, Len(user_product_ids))
                recommendations ==
                    [i \in DOMAIN sums |->
                        [product_id |-> sums[i].product_id,
                         score |-> sums[i].score \div Len(user_product_ids)]]
            IN Take(SortDesc(recommendations), n_recommendations)

\* faulty variant of popularity_recommendations: the interacted products are kept
popularity_recommendations_unfiltered(user_id, n_recommendations) ==
    Take(product_popularity, n_recommendations)

\* rows of the popularity table are [product_id, score]
popularity_recommendations(user_id, n_recommendations) ==
    LET user_product_ids == Range(get_user_interactions(user_id))
        popular_products ==
            SelectSeq(product_popularity, LAMBDA r : r.product_id \notin user_product_ids)
    IN Take(popular_products, n_recommendations)

(***************************************************************************)
(* Enrichment.  A call either returns a value or raises: [raised, value].  *)
(***************************************************************************)
Returned(v) == [raised |-> FALSE, value |-> v]
Raised == [raised |-> TRUE, value |-> <<>>]

\* next((item for item in db if item.get('_id') == product_id), None),
\* as the sequence holding the entry found, or the empty sequence for None
FindProduct(db, product_id) ==
    LET hits == SelectSeq(db, LAMBDA item : item._id = product_id)
    IN IF hits = <<>> THEN <<>> ELSE <<hits[1]>>

\* the subscripts product_details['name'], ['category'], ['brand'] raise
\* KeyError on an entry that lacks the key
FormatRaises(product_details) ==
    ~({"name", "category", "brand"} \subseteq DOMAIN product_details)

\* the keys of the dict format_product_details returns
FormatKeys ==
    {"_id", "name", "score", "category", "brand", "description", "price",
     "listPrice", "images", "colors", "sizes", "tags", "countInStock", "slug",
     "avgRating", "numReviews", "numSales", "isPublished", "createdAt",
     "updatedAt", "ratingDistribution"}

\* the dict returned for an entry holding the three subscripted keys
format_product_details(product_details, score) ==
    [_id |-> product_details._id,
     name |-> product_details.name,
     score |-> score,
     category |-> product_details.category,
     brand |-> product_details.brand]

\* the loop "for product_id, score in sorted_recs[:n]" over top[1..k]
RECURSIVE EnrichLoop(_, _, _)
EnrichLoop(top, db, k) ==
    IF k = 0 THEN Returned(<<>>)
    ELSE LET done == EnrichLoop(top, db, k - 1)
             found == FindProduct(db, top[k].product_id)
         IN IF done.raised THEN Raised
            ELSE IF found = <<>> THEN done
            ELSE IF FormatRaises(found[1]) THEN Raised
            ELSE Returned(Append(done.value,
                                 format_product_details(found[1], top[k].score)))

\* faulty variant of MergeInto: the contribution replaces the accumulated score
RECURSIVE MergeIntoAssign(_, _, _, _)
MergeIntoAssign(final, recs, weight, k) ==
    IF k = 0 THEN final
    ELSE DictSet(MergeIntoAssign(final, recs, weight, k - 1),
                 recs[k].product_id, weight * recs[k].score)

\* one of the three "for product_id, score in recs" merge loops, over recs[1..k]
RECURSIVE MergeInto(_, _, _, _)
MergeInto(final, recs, weight, k) ==
    IF k = 0 THEN final
    ELSE DictAdd(MergeInto(final, recs, weight, k - 1),
                 recs[k].product_id, weight * recs[k].score)

\* the first merge loop assigns instead of adding
RECURSIVE MergeAssign(_, _, _)
MergeAssign(recs, weight, k) ==
    IF k = 0 THEN <<>>
    ELSE DictSet(MergeAssign(recs, weight, k - 1),
                 recs[k].product_id, weight * recs[k].score)

\* the blend of the three lists, sorted: sorted_recs
BlendSorted(cf_recs, cb_recs, pop_recs, cf_weight, cb_weight, pop_weight) ==
    LET with_cf == MergeAssign(cf_recs, cf_weight, Len(cf_recs))
        with_cb == MergeInto(with_cf, cb_recs, cb_weight, Len(cb_recs))
        final_recommendations == MergeInto(with_cb, pop_recs, pop_weight, Len(pop_recs))
    IN SortDesc(final_recommendations)

\* sorted_recs[:n_recommendations] of get_hybrid_recommendations
HybridTop(user_id, n_recommendations, cf_weight, cb_weight, pop_weight) ==
    LET cf_recs == collaborative_recommendations(user_id, n_recommendations * 2)
        cb_recs == content_based_recommendations(user_id, n_recommendations * 2)
        pop_recs == popularity_recommendations(user_id, n_recommendations * 2)
        sorted_recs == BlendSorted(cf_recs, cb_recs, pop_recs,
                                   cf_weight, cb_weight, pop_weight)
    IN Take(sorted_recs, n_recommendations)

\* the outcome of the call, with the candidates it selected for enrichment
get_hybrid_recommendations(user_id, n_recommendations, cf_weight, cb_weight, pop_weight) ==
    LET top == HybridTop(user_id, n_recommendations, cf_weight, cb_weight, pop_weight)
    IN [core |-> EnrichLoop(top, db_products, Len(top)),
        selected |-> ProductIds(top)]

(***************************************************************************)
(* The cache file.  Its content is a sequence of tokens, the units in      *)
(* which json.dump hands text to the file: the opening brace, the          *)
(* "timestamp" member, one token per recommendation, the closing brace.    *)
(***************************************************************************)
NoFile == [exists |-> FALSE, content |-> <<>>]
File(content) == [exists |-> TRUE, content |-> content]

\* one recommendation dict as JSON text
JsonItem(rec) ==
    [tok |-> "item", text |-> <<rec._id, rec.name, rec.category, rec.brand, rec.score>>]

\* faulty variant of JsonDump: the entry is stamped with the start of the clock
JsonDumpUnstamped(timestamp, recommendations) ==
    <<[tok |-> "open"], [tok |-> "timestamp", text |-> 0]>>
    \o [i \in DOMAIN recommendations |-> JsonItem(recommendations[i])]
    \o <<[tok |-> "close"]>>

\* json.dump({'timestamp': ..., 'recommendations': [...]}, f)
JsonDump(timestamp, recommendations) ==
    <<[tok |-> "open"], [tok |-> "timestamp", text |-> timestamp]>>
    \o [i \in DOMAIN recommendations |-> JsonItem(recommendations[i])]
    \o <<[tok |-> "close"]>>

\* the text is one complete JSON document of the shape json.dump wrote
JsonWellFormed(content) ==
    /\ Len(content) >= 3
    /\ content[1].tok = "open"
    /\ content[2].tok = "timestamp"
    /\ content[Len(content)].tok = "close"
    /\ \A i \in 3..(Len(content) - 1) : content[i].tok = "item"

\* json.load(f): the parsed dict, or ok = FALSE when the decoder raises
JsonLoad(content) ==
    IF JsonWellFormed(content)
    THEN [ok |-> TRUE,
          timestamp |-> content[2].text,
          recommendations |->
              [i \in 1..(Len(content) - 3) |->
                  LET t == content[i + 2].text
                  IN [_id |-> t[1], name |-> t[2], score |-> t[5],
                      category |-> t[3], brand |-> t[4]]]]
    ELSE [ok |-> FALSE, timestamp |-> 0, recommendations |-> <<>>]

\* faulty variant of CacheFresh: the duration is taken in minutes, not hours
CacheFreshMinutes(file, t) ==
    /\ file.exists
    /\ JsonLoad(file.content).ok
    /\ t - JsonLoad(file.content).timestamp < CACHE_DURATION_HOURS \div 60

\* the cached entry is read and still valid at time t
CacheFresh(file, t) ==
    /\ file.exists
    /\ JsonLoad(file.content).ok
    /\ t - JsonLoad(file.content).timestamp < CACHE_DURATION_HOURS

\* the loop over popular_products.iterrows(), rows[1..k]
RECURSIVE ColdStartLoop(_, _, _)
ColdStartLoop(rows, db, k) ==
    IF k = 0 THEN Returned(<<>>)
    ELSE LET done == ColdStartLoop(rows, db, k - 1)
             product_id == rows[k].product_id
             found == FindProduct(db, product_id)
         IN IF done.raised THEN Raised
            ELSE IF product_id = "" THEN done
            ELSE IF found = <<>> THEN done
            ELSE IF FormatRaises(found[1]) THEN Raised
            ELSE Returned(Append(done.value,
                                 format_product_details(found[1], rows[k].score)))

\* the recomputation from the popularity table (what follows the cache read)
ColdStartCompute(product_popularity_df, db_products_list, n_recommendations) ==
    IF product_popularity_df = <<>> THEN Returned(<<>>)
    ELSE IF db_products_list = <<>> THEN Returned(<<>>)
    ELSE LET popular_products == Take(product_popularity_df, n_recommendations)
         IN IF popular_products = <<>> THEN Returned(<<>>)
            ELSE ColdStartLoop(popular_products, db_products_list,
                               Len(popular_products))

\* what open(path, 'w') followed by json.dump can leave behind: the whole
\* text, the old file when open raises, or a strict prefix of the text when
\* the dump raises after the truncation (prefixes of up to MaxPartial tokens)
WriteOutcomes(file, text) ==
    {[file |-> File(text), write |-> "ok"], [file |-> file, write |-> "failed"]}
    \cup {[file |-> File(SubSeq(text, 1, k)), write |-> "failed"] :
             k \in 0..Min(Len(text) - 1, MaxPartial)}

\* faulty variant of handle_cold_start_user: no inner try blocks: a cache read error
\* or a write error reaches the outer handler, which returns []
handle_cold_start_user_no_inner_try(file, t, product_popularity_df, db_products_list, n_recommendations) ==
    LET cache_data == JsonLoad(file.content)
        computed == ColdStartCompute(product_popularity_df, db_products_list,
                                     n_recommendations)
        popular == IF db_products_list = <<>> THEN <<>>
                   ELSE ProductIds(Take(product_popularity_df, n_recommendations))
        base == [core |-> Returned(<<>>), file |-> file, from_cache |-> FALSE,
                 read_error |-> file.exists /\ ~cache_data.ok, write |-> "none",
                 path |-> "cold_start", selected |-> <<>>]
    IN IF CacheFresh(file, t)
       THEN {[base EXCEPT !.core = Returned(cache_data.recommendations),
                          !.from_cache = TRUE]}
       ELSE IF base.read_error \/ computed.raised \/ computed.value = <<>>
       THEN {[base EXCEPT !.selected = popular]}
       ELSE {[base EXCEPT !.core = IF w.write = "ok" THEN computed
                                   ELSE Returned(<<>>),
                          !.file = w.file, !.write = w.write,
                          !.selected = popular] :
               w \in WriteOutcomes(file, JsonDump(t, computed.value))}

\* handle_cold_start_user: the set of outcomes of one call made at time t
handle_cold_start_user(file, t, product_popularity_df, db_products_list, n_recommendations) ==
    LET cache_data == JsonLoad(file.content)
        computed == ColdStartCompute(product_popularity_df, db_products_list,
                                     n_recommendations)
        popular == IF db_products_list = <<>> THEN <<>>
                   ELSE ProductIds(Take(product_popularity_df, n_recommendations))
        base == [core |-> Returned(<<>>), file |-> file, from_cache |-> FALSE,
                 read_error |-> file.exists /\ ~cache_data.ok, write |-> "none",
                 path |-> "cold_start", selected |-> <<>>]
    IN IF CacheFresh(file, t)
       THEN {[base EXCEPT !.core = Returned(cache_data.recommendations),
                          !.from_cache = TRUE]}
       ELSE IF computed.raised \/ computed.value = <<>>
       THEN {[base EXCEPT !.selected = popular]}
       ELSE {[base EXCEPT !.core = computed, !.file = w.file, !.write = w.write,
                          !.selected = popular] :
               w \in WriteOutcomes(file, JsonDump(t, computed.value))}

(***************************************************************************)
(* The product-anchored recommender.                                       *)
(***************************************************************************)
\* the popularity_score looked up for one candidate, 0.0 when it has no row
PopularityOf(product_id) ==
    LET rows == SelectSeq(product_popularity, LAMBDA r : r.product_id = product_id)
    IN IF rows = <<>> THEN 0 ELSE rows[1].score

\* faulty variant of AnchoredScore: the prediction is added for every user
AnchoredScoreAnyUser(user_id, anchor, candidate, content_weight, cf_weight, pop_weight) ==
    content_weight * product_similarity_df.at[<<candidate, anchor>>]
    + (IF ~PredictFails("svd", candidate)
       THEN cf_weight * Estimate("svd", candidate) ELSE 0)
    + pop_weight * PopularityOf(candidate)

\* the body of the loop over similarities.items() for one candidate
AnchoredScore(user_id, anchor, candidate, content_weight, cf_weight, pop_weight) ==
    content_weight * product_similarity_df.at[<<candidate, anchor>>]
    + (IF UserKnown(user_id) /\ ~PredictFails("svd", candidate)
       THEN cf_weight * Estimate("svd", candidate) ELSE 0)
    + pop_weight * PopularityOf(candidate)

\* sorted_recs[:n_recommendations] of get_recommendations_for_product
AnchoredTop(user_id, product_id, n_recommendations, content_weight, cf_weight, pop_weight) ==
    LET user_product_ids == Range(get_user_interactions(user_id))
        similarities ==
            SelectSeq(product_similarity_df.index,
                      LAMBDA c : c # product_id /\ c \notin user_product_ids)
        final_recommendations ==
            [i \in DOMAIN similarities |->
                [product_id |-> similarities[i],
                 score |-> AnchoredScore(user_id, product_id, similarities[i],
                                         content_weight, cf_weight, pop_weight)]]
    IN Take(SortDesc(final_recommendations), n_recommendations)

\* faulty variant of get_recommendations_for_product: the fallback does not pass
\* n_recommendations on, so the cold-start path runs with its default of 10
get_recommendations_for_product_default_n(file, t, user_id, product_id, n_recommendations) ==
    IF product_id \notin Range(product_similarity_df.index)
    THEN handle_cold_start_user(file, t, product_popularity, db_products, 10)
    ELSE LET top == AnchoredTop(user_id, product_id, n_recommendations,
                                ANCHOR_CONTENT_WEIGHT, ANCHOR_CF_WEIGHT,
                                ANCHOR_POP_WEIGHT)
         IN {[core |-> EnrichLoop(top, db_products, Len(top)),
              file |-> file, from_cache |-> FALSE, read_error |-> FALSE,
              write |-> "none", path |-> "anchored",
              selected |-> ProductIds(top)]}

\* get_recommendations_for_product: the set of outcomes of one call at time t
get_recommendations_for_product(file, t, user_id, product_id, n_recommendations) ==
    IF product_id \notin Range(product_similarity_df.index)
    THEN handle_cold_start_user(file, t, product_popularity, db_products,
                                n_recommendations)
    ELSE LET top == AnchoredTop(user_id, product_id, n_recommendations,
                                ANCHOR_CONTENT_WEIGHT, ANCHOR_CF_WEIGHT,
                                ANCHOR_POP_WEIGHT)
         IN {[core |-> EnrichLoop(top, db_products, Len(top)),
              file |-> file, from_cache |-> FALSE, read_error |-> FALSE,
              write |-> "none", path |-> "anchored",
              selected |-> ProductIds(top)]}

(***************************************************************************)
(* The two endpoints.                                                      *)
(***************************************************************************)
\* the fields ProductRecommendation declares with Field(...), i.e. required
SchemaRequired ==
    {"id", "name", "slug", "category", "brand", "description", "price",
     "listPrice", "countInStock", "avgRating", "numReviews", "numSales",
     "isPublished", "createdAt", "updatedAt"}

\* RecommendationResponse(recommendations=...) raises a validation error
ResponseInvalid(recommendations) ==
    recommendations # <<>> /\ ~(SchemaRequired \subseteq FormatKeys)

NoResponse ==
    [endpoint |-> "none", user_id |-> "", product_id |-> "", n |-> 0,
     path |-> "none", status |-> 0, core |-> Returned(<<>>), body |-> <<>>,
     from_cache |-> FALSE, read_error |-> FALSE, write |-> "none", called |-> {},
     selected |-> <<>>]

\* GET /recommendations/{user_id}
GetUserRecommendations(user_id, n_recommendations) ==
    LET req == [NoResponse EXCEPT !.endpoint = "user", !.user_id = user_id,
                                  !.n = n_recommendations]
    IN IF n_recommendations <= 0
       THEN /\ resp' = [req EXCEPT !.path = "rejected", !.status = 400]
            /\ cache' = cache
       ELSE IF ~UserKnown(user_id)
       THEN \E o \in handle_cold_start_user(cache, now, product_popularity,
                                             db_products, n_recommendations) :
              /\ resp' = [req EXCEPT !.path = "cold_start", !.status = 200,
                                     !.core = o.core, !.body = o.core.value,
                                     !.from_cache = o.from_cache,
                                     !.read_error = o.read_error,
                                     !.write = o.write,
                                     !.selected = o.selected,
                                     !.called = {"handle_cold_start_user"}]
              /\ cache' = o.file
       ELSE LET recommendations ==
                    get_hybrid_recommendations(user_id, n_recommendations,
                        HYBRID_CF_WEIGHT, HYBRID_CB_WEIGHT, HYBRID_POP_WEIGHT)
            IN /\ resp' = [req EXCEPT
                             !.path = "hybrid",
                             !.selected = recommendations.selected,
                             !.status = IF recommendations.core.raised
                                        THEN 500 ELSE 200,
                             !.core = recommendations.core,
                             !.body = recommendations.core.value,
                             !.called = {"get_hybrid_recommendations",
                                         "collaborative_recommendations",
                                         "content_based_recommendations",
                                         "popularity_recommendations"}]
               /\ cache' = cache

\* GET /recommendations/{user_id}/{product_id}
GetProductRecommendations(user_id, product_id, n_recommendations) ==
    \E o \in get_recommendations_for_product(cache, now, user_id, product_id,
                                             n_recommendations) :
      LET failed == o.core.raised \/ ResponseInvalid(o.core.value)
      IN /\ resp' = [NoResponse EXCEPT
                       !.endpoint = "product", !.user_id = user_id,
                       !.product_id = product_id, !.n = n_recommendations,
                       !.path = o.path,
                       !.status = IF failed THEN 500 ELSE 200,
                       !.core = o.core,
                       !.body = IF failed THEN <<>> ELSE o.core.value,
                       !.from_cache = o.from_cache, !.read_error = o.read_error,
                       !.write = o.write, !.selected = o.selected,
                       !.called = IF o.path = "cold_start"
                                  THEN {"get_recommendations_for_product",
                                        "handle_cold_start_user"}
                                  ELSE {"get_recommendations_for_product"}]
         /\ cache' = o.file

(***************************************************************************)
(* The environment: the clock, and the popularity table being regenerated  *)
(* on disk between two requests (each request calls load_models()).        *)
(***************************************************************************)
Row(product_id, score) == [product_id |-> product_id, score |-> score]

PopularityVersions ==
    << <<Row("P4", 80), Row("P3", 60), Row("P2", 40), Row("P1", 20)>>,
       <<Row("P2", 90), Row("P3", 70), Row("P1", 50)>> >>

AdvanceClock ==
    /\ now < MaxTicks * TickHours
    /\ now' = now + TickHours
    /\ UNCHANGED <<interactions_df, products_df, product_similarity_df, db_products,
                   oracle, product_popularity, cache, resp, workers>>

ReloadPopularity(v) ==
    /\ product_popularity # PopularityVersions[v]
    /\ product_popularity' = PopularityVersions[v]
    /\ UNCHANGED <<interactions_df, products_df, product_similarity_df, db_products,
                   oracle, cache, now, resp, workers>>

(***************************************************************************)
(* Serving requests one at a time (one event loop; the handlers hold no    *)
(* await, so a request runs to completion before the next one starts).     *)
(***************************************************************************)
Interaction(user_id, product_id) == [userId |-> user_id, productId |-> product_id]

InteractionLogs ==
    { <<Interaction("U1", "P1")>>,
      <<Interaction("U1", "P2"), Interaction("U1", "P1"), Interaction("U1", "P2")>> }

Entry(product_id) ==
    [_id |-> product_id, name |-> "name", category |-> "category", brand |-> "brand"]

Catalogs ==
    { <<Entry("P1"), Entry("P2"), Entry("P3"), Entry("P4")>>,
      <<Entry("P1"), Entry("P2"), Entry("P3")>>,
      <<Entry("P1"), [_id |-> "P2", name |-> "name", category |-> "category"],
        Entry("P3")>>,
      <<>> }

Users == {"U0", "U1"}

Models == {"svd", "nmf", "knn"}

OracleFailures ==
    { {}, Models \X {"P1", "P2", "P3", "P4"}, {<<"svd", "P3">>} }

SimilarityFrame ==
    [index |-> <<"P1", "P2", "P3">>,
     at |-> [pair \in {"P1", "P2", "P3"} \X {"P1", "P2", "P3"} |->
               IF pair[1] = pair[2] THEN 100
               ELSE IF {pair[1], pair[2]} = {"P1", "P2"} THEN 90
               ELSE IF {pair[1], pair[2]} = {"P1", "P3"} THEN 40
               ELSE 60]]

Workers == {"w1", "w2"}

Idle ==
    [pc |-> "idle", n |-> 0, text |-> <<>>, offset |-> 0, observed |-> "none",
     result |-> <<>>]

Init ==
    /\ interactions_df =
          <<Interaction("U1", "P2"), Interaction("U1", "P1"), Interaction("U1", "P2")>>
    /\ products_df = <<"P1", "P2", "P3", "P4">>
    /\ product_similarity_df = SimilarityFrame
    /\ db_products \in Catalogs
    /\ oracle = {}
    /\ product_popularity = PopularityVersions[1]
    /\ cache = NoFile
    /\ now = 0
    /\ resp = NoResponse
    /\ workers = [w \in Workers |-> Idle]

Static == <<interactions_df, products_df, product_similarity_df, db_products,
            oracle, product_popularity, now, workers>>

UserRequest ==
    \E user_id \in Users, n \in 0..MaxN :
        GetUserRecommendations(user_id, n) /\ UNCHANGED Static

ProductRequest ==
    \E user_id \in Users, product_id \in {"P1", "P4"}, n \in 1..MaxN :
        GetProductRecommendations(user_id, product_id, n) /\ UNCHANGED Static

Reload == \E v \in DOMAIN PopularityVersions : ReloadPopularity(v)

Next == UserRequest \/ ProductRequest \/ AdvanceClock \/ Reload

Spec == Init /\ [][Next]_vars

(***************************************************************************)
(* The scorers and the blend on every combination of interaction log,      *)
(* catalog and failing predictions: requests of the user with a history    *)
(* and product-anchored requests whose anchor has a similarity row.        *)
(***************************************************************************)
InitScorers ==
    /\ interactions_df \in InteractionLogs
    /\ products_df = <<"P1", "P2", "P3", "P4">>
    /\ product_similarity_df = SimilarityFrame
    /\ db_products \in Catalogs
    /\ oracle \in OracleFailures
    /\ product_popularity = PopularityVersions[1]
    /\ cache = NoFile
    /\ now = 0
    /\ resp = NoResponse
    /\ workers = [w \in Workers |-> Idle]

HybridRequest ==
    \E n \in 0..MaxN : GetUserRecommendations("U1", n) /\ UNCHANGED Static

AnchoredRequest ==
    \E user_id \in Users, product_id \in {"P1", "P3"}, n \in 1..MaxN :
        GetProductRecommendations(user_id, product_id, n) /\ UNCHANGED Static

NextScorers == HybridRequest \/ AnchoredRequest \/ Reload

SpecScorers == InitScorers /\ [][NextScorers]_vars

(***************************************************************************)
(* A direct call of get_hybrid_recommendations with weights of the         *)
(* caller's choice, on the five-product catalog of the content-scorer      *)
(* scenario.                                                               *)
(***************************************************************************)
DEFAULT_N_RECOMMENDATIONS == 10

CallHybrid(user_id, n_recommendations, cf_weight, cb_weight, pop_weight) ==
    LET recommendations ==
            get_hybrid_recommendations(user_id, n_recommendations,
                                       cf_weight, cb_weight, pop_weight)
    IN /\ resp' = [NoResponse EXCEPT
                     !.endpoint = "core", !.user_id = user_id,
                     !.n = n_recommendations, !.path = "hybrid",
                     !.selected = recommendations.selected,
                     !.status = IF recommendations.core.raised THEN 500 ELSE 200,
                     !.core = recommendations.core,
                     !.body = recommendations.core.value,
                     !.called = {"get_hybrid_recommendations",
                                 "collaborative_recommendations",
                                 "content_based_recommendations",
                                 "popularity_recommendations"}]
       /\ UNCHANGED <<interactions_df, products_df, product_similarity_df,
                      db_products, oracle, product_popularity, cache, now, workers>>

FiveProducts == <<"P1", "P2", "P3", "P4", "P5">>

\* similarity(P1,P2) = 0.9 and similarity(P1,P3) = 0.4; the frame either has
\* no row for P4 and P5 or holds 0 for the pairs that were not computed
ScenarioFrames ==
    { SimilarityFrame,
      [index |-> FiveProducts,
       at |-> [pair \in Range(FiveProducts) \X Range(FiveProducts) |->
                 IF pair[1] = pair[2] THEN 100
                 ELSE IF {pair[1], pair[2]} = {"P1", "P2"} THEN 90
                 ELSE IF {pair[1], pair[2]} = {"P1", "P3"} THEN 40
                 ELSE 0]] }

InitScenario ==
    /\ interactions_df = <<Interaction("U1", "P1")>>
    /\ products_df = FiveProducts
    /\ product_similarity_df \in ScenarioFrames
    /\ db_products = [i \in DOMAIN FiveProducts |-> Entry(FiveProducts[i])]
    /\ oracle \in SUBSET ({"svd", "knn"} \X {"P2", "P4", "P5"})
    /\ product_popularity =
          <<Row("P4", 80), Row("P5", 60), Row("P2", 40), Row("P3", 20)>>
    /\ cache = NoFile
    /\ now = 0
    /\ resp = NoResponse
    /\ workers = [w \in Workers |-> Idle]

NextScenario ==
    \E n \in (1..MaxN) \cup {DEFAULT_N_RECOMMENDATIONS} :
        CallHybrid("U1", n, 0, 10, 0)

SpecScenario == InitScenario /\ [][NextScenario]_vars

(***************************************************************************)
(* Cold-start requests served by several worker processes that share the   *)
(* cache file.  handle_cold_start_user is split at its file-system calls:  *)
(* the read of the file, open(path, 'w'), and each write() by which the    *)
(* buffered json.dump reaches the file.                                    *)
(***************************************************************************)
Nul == [tok |-> "nul"]

\* write(chunk) at the writer's own file offset; a gap left by another
\* writer's truncation reads as NUL bytes
WriteAt(old, offset, chunk) ==
    LET padded == old \o [i \in 1..(offset - Len(old)) |-> Nul]
        upto == offset + Len(chunk)
    IN SubSeq(padded, 1, offset) \o chunk
       \o (IF Len(padded) > upto THEN SubSeq(padded, upto + 1, Len(padded)) ELSE <<>>)

\* lines 258-298: the cache read, then the recomputation
WorkerStart(w, n_recommendations) ==
    LET cache_data == JsonLoad(cache.content)
        computed == ColdStartCompute(product_popularity, db_products,
                                     n_recommendations)
        seen == IF ~cache.exists THEN "missing"
                ELSE IF ~cache_data.ok THEN "unparsable" ELSE "expired"
        me == [workers[w] EXCEPT !.n = n_recommendations]
    IN /\ workers[w].pc = "idle"
       /\ workers' = [workers EXCEPT ![w] =
             IF CacheFresh(cache, now)
             THEN [me EXCEPT !.pc = "done", !.observed = "hit",
                             !.result = cache_data.recommendations]
             ELSE IF computed.raised \/ computed.value = <<>>
             THEN [me EXCEPT !.pc = "done", !.observed = seen]
             ELSE [me EXCEPT !.pc = "open", !.observed = seen,
                             !.result = computed.value,
                             !.text = JsonDump(now, computed.value)]]
       /\ UNCHANGED <<interactions_df, products_df, product_similarity_df,
                      db_products, oracle, product_popularity, cache, now, resp>>

\* line 307: open(cache_file_path, 'w') creates or truncates the file
WorkerOpen(w) ==
    /\ workers[w].pc = "open"
    /\ cache' = File(<<>>)
    /\ workers' = [workers EXCEPT ![w].pc = "dump", ![w].offset = 0]
    /\ UNCHANGED <<interactions_df, products_df, product_similarity_df,
                   db_products, oracle, product_popularity, now, resp>>

\* line 308: one write() of the next k tokens; the last one closes the file
WorkerWrite(w, k) ==
    LET me == workers[w]
    IN /\ me.pc = "dump"
       /\ k \in 1..(Len(me.text) - me.offset)
       /\ cache' = File(WriteAt(cache.content, me.offset,
                                SubSeq(me.text, me.offset + 1, me.offset + k)))
       /\ workers' = [workers EXCEPT
             ![w].offset = me.offset + k,
             ![w].pc = IF me.offset + k = Len(me.text) THEN "done" ELSE "dump"]
       /\ UNCHANGED <<interactions_df, products_df, product_similarity_df,
                      db_products, oracle, product_popularity, now, resp>>

InitWorkers ==
    /\ interactions_df = <<Interaction("U1", "P1")>>
    /\ products_df = <<"P1", "P2", "P3", "P4">>
    /\ product_similarity_df = SimilarityFrame
    /\ db_products = <<Entry("P1"), Entry("P2"), Entry("P3"), Entry("P4")>>
    /\ oracle = {}
    /\ product_popularity = PopularityVersions[1]
    /\ cache = NoFile
    /\ now = 0
    /\ resp = NoResponse
    /\ workers = [w \in Workers |-> Idle]

NextWorkers ==
    \/ \E w \in Workers, n \in 1..MaxN : WorkerStart(w, n)
    \/ \E w \in Workers : WorkerOpen(w)
    \/ \E w \in Workers, k \in 1..(MaxN + 3) : WorkerWrite(w, k)

SpecWorkers == InitWorkers /\ [][NextWorkers]_vars

(***************************************************************************)
(* Properties.                                                             *)
(***************************************************************************)
\* the products a user has interacted with, read off the log
HistoryOf(user_id) ==
    {interactions_df[i].productId :
        i \in {j \in DOMAIN interactions_df : interactions_df[j].userId = user_id}}

CatalogIds == {db_products[i]._id : i \in DOMAIN db_products}

Ids(list) == [i \in DOMAIN list |-> list[i]._id]

Scores(list) == [i \in DOMAIN list |-> list[i].score]

Scorers ==
    {"collaborative_recommendations", "content_based_recommendations",
     "popularity_recommendations"}

\* a step of a request handler: only the handlers leave the clock and the
\* popularity table alone, and each stores the response of its request in
\* resp, so that resp' describes the request of the step
RequestStep ==
    /\ now' = now
    /\ product_popularity' = product_popularity
    /\ <<resp', cache'>> # <<resp, cache>>

\* this step is a request that runs handle_cold_start_user
ColdStartCall == RequestStep /\ resp'.path = "cold_start"

\* C1: a hybrid recommendation for a user with a history, for n >= 1, has at
\* most n entries, pairwise distinct product ids, and none of them is a
\* product the user has interacted with.
C1_HybridBounded ==
    (resp.path = "hybrid" /\ HistoryOf(resp.user_id) # {} /\ resp.n >= 1) =>
        /\ Len(resp.core.value) <= resp.n
        /\ \A i, j \in DOMAIN resp.core.value :
              i # j => resp.core.value[i]._id # resp.core.value[j]._id
        /\ \A i \in DOMAIN resp.core.value :
              resp.core.value[i]._id \notin HistoryOf(resp.user_id)

C1_Witness ==
    /\ resp.path = "hybrid"
    /\ Cardinality(HistoryOf(resp.user_id)) = 2
    /\ resp.n >= 2
    /\ Len(resp.core.value) = 2

\* C2: a cold-start call that computes a list and writes the cache stores
\* exactly the list it returns, stamped with the time of the call; every
\* cold-start call made while the stored entry is younger than 120 hours
\* returns exactly the stored list and leaves the file alone (nothing is
\* recomputed, whatever the popularity table holds by then); and nothing
\* but a cold-start call touches the file.
C2_CacheDeterminism ==
    [][LET entry == JsonLoad(cache.content)
       IN /\ (/\ ColdStartCall
               /\ cache.exists
               /\ entry.ok
               /\ now - entry.timestamp < CACHE_DURATION_HOURS)
                => /\ resp'.core = Returned(entry.recommendations)
                   /\ resp'.from_cache
                   /\ cache' = cache
          /\ (ColdStartCall /\ resp'.write = "ok")
                => JsonLoad(cache'.content) =
                     [ok |-> TRUE, timestamp |-> now,
                      recommendations |-> resp'.core.value]
          /\ ~ColdStartCall => cache' = cache]_vars

C2_Witness ==
    /\ resp.path = "cold_start"
    /\ resp.from_cache
    /\ resp.core.value # <<>>
    /\ resp.core.value #
         ColdStartCompute(product_popularity, db_products, resp.n).value

\* C3: with several workers refreshing and reading the cache, no worker
\* reads a file it cannot parse, and once every worker is done the file
\* holds the complete text of exactly one writer.
C3_AtomicCacheWrite ==
    /\ \A w \in Workers : workers[w].observed # "unparsable"
    /\ ((\A w \in Workers : workers[w].pc = "done") /\ cache.exists)
          => \E w \in Workers :
                workers[w].text # <<>> /\ cache.content = workers[w].text

\* C4: neither public call raises: whatever is missing, the call returns a
\* list.
C4_NeverRaises ==
    resp.endpoint \in {"user", "product"} => ~resp.core.raised

\* C5: a product-anchored call whose anchor has no similarity row has
\* exactly an outcome of handle_cold_start_user for the same tables, cache,
\* time and n, whoever the user is.
C5_AnchorFallback ==
    [][(/\ RequestStep
        /\ resp'.endpoint = "product"
        /\ resp'.product_id \notin Range(product_similarity_df.index))
         => \E o \in handle_cold_start_user(cache, now, product_popularity,
                                             db_products, resp'.n) :
               resp'.core = o.core /\ cache' = o.file]_vars

C5_Witness ==
    /\ resp.endpoint = "product"
    /\ resp.path = "cold_start"
    /\ HistoryOf(resp.user_id) # {}
    /\ resp.n = 1
    /\ Len(resp.core.value) = 1

\* every candidate of the collaborative scorer has a failing prediction
AllCollabFail(user_id) ==
    \A p \in Range(products_df) \ HistoryOf(user_id) :
        \E m \in Models : <<m, p>> \in oracle

\* C6 (as stated): when the collaborative prediction fails for every
\* candidate, the hybrid call for a user with history does not fail and
\* returns a non-empty list.
C6_Original ==
    (/\ resp.endpoint = "user"
     /\ resp.path = "hybrid"
     /\ AllCollabFail(resp.user_id))
      => (~resp.core.raised /\ resp.core.value # <<>>)

\* C6 (amended): when the collaborative prediction fails for every
\* candidate, the failed predictions raise nothing and contribute nothing:
\* the outcome of the hybrid call is exactly the enrichment of the first n
\* entries of the blend of the content and popularity lists alone, and a
\* returned list is non-empty exactly when one of these entries has a
\* catalog entry.
C6_Degradation ==
    [][\A user_id \in Users, n \in 1..MaxN :
         (/\ AllCollabFail(user_id)
          /\ HistoryOf(user_id) # {}
          /\ resp'.user_id = user_id /\ resp'.n = n
          /\ GetUserRecommendations(user_id, n))
           => LET cb_recs == content_based_recommendations(user_id, n * 2)
                  pop_recs == popularity_recommendations(user_id, n * 2)
                  top == Take(BlendSorted(<<>>, cb_recs, pop_recs,
                                          HYBRID_CF_WEIGHT, HYBRID_CB_WEIGHT,
                                          HYBRID_POP_WEIGHT), n)
              IN /\ resp'.core = EnrichLoop(top, db_products, Len(top))
                 /\ ~resp'.core.raised =>
                       (resp'.core.value # <<>> <=>
                          \E i \in DOMAIN top :
                             top[i].product_id \in CatalogIds)]_vars

C6_Witness ==
    /\ resp.endpoint = "user"
    /\ resp.path = "hybrid"
    /\ AllCollabFail(resp.user_id)
    /\ Cardinality(HistoryOf(resp.user_id)) = 2
    /\ Len(resp.core.value) = 2

\* C7: when a selected candidate has no catalog entry, the call raises
\* nothing and emits exactly the selected candidates that have one, in
\* order.
C7_AbsentDropped ==
    (/\ resp.path \in {"hybrid", "anchored", "cold_start"}
     /\ \E i \in DOMAIN resp.selected : resp.selected[i] \notin CatalogIds)
      => /\ ~resp.core.raised
         /\ Ids(resp.core.value) =
              SelectSeq(resp.selected, LAMBDA p : p \in CatalogIds)

\* C8: a user request (n >= 1) of a user without interactions runs the
\* cold-start path and none of the three scorers; a user request of a user
\* with an interaction runs the hybrid blend, does not call the cold-start
\* path and neither reads nor writes the cache file.
C8_Routing ==
    [][(RequestStep /\ resp'.endpoint = "user" /\ resp'.n >= 1)
         => IF HistoryOf(resp'.user_id) = {}
            THEN /\ resp'.path = "cold_start"
                 /\ "handle_cold_start_user" \in resp'.called
                 /\ resp'.called \cap Scorers = {}
            ELSE /\ resp'.path = "hybrid"
                 /\ "handle_cold_start_user" \notin resp'.called
                 /\ cache' = cache
                 /\ ~resp'.from_cache
                 /\ ~resp'.read_error
                 /\ resp'.write = "none"]_vars

C8_Witness ==
    /\ resp.endpoint = "user"
    /\ resp.path = "hybrid"
    /\ resp.core.value # <<>>
    /\ cache.exists

\* the list a cold-start call computes from the popularity table
FreshList(n) ==
    LET computed == ColdStartCompute(product_popularity, db_products, n)
    IN IF computed.raised THEN <<>> ELSE computed.value

\* C9: a cold-start call that finds a cache file it cannot parse, or whose
\* cache write fails, returns the list computed from the popularity table
\* at that moment and surfaces no error.
C9_CacheErrorsRecovered ==
    [][(/\ ColdStartCall
        /\ \/ cache.exists /\ ~JsonLoad(cache.content).ok
           \/ resp'.write = "failed")
         => /\ resp'.core = Returned(FreshList(resp'.n))
            /\ resp'.endpoint = "user" =>
                  (resp'.status = 200 /\ resp'.body = FreshList(resp'.n))]_vars

C9_Witness ==
    /\ resp.path = "cold_start"
    /\ resp.read_error
    /\ resp.write = "failed"
    /\ resp.core.value # <<>>

\* C10 (as stated): in the content-scorer scenario the hybrid list is
\* exactly [P2, P3] with scores [0.9, 0.4].
C10_Original ==
    (resp.path = "hybrid" /\ resp.n >= 2) =>
        /\ Ids(resp.core.value) = <<"P2", "P3">>
        /\ Scores(resp.core.value) = <<900, 400>>

\* C10 (amended): in the content-scorer scenario the hybrid list for n
\* starts with P2 (0.9) then P3 (0.4), and goes on, up to n entries, with
\* the candidates of the zero-weighted scorers, P4 and P5, at score 0: it
\* has min(n, 4) entries and is [P2, P3] only for n = 2.
C10_ContentIsolated ==
    resp.path = "hybrid" =>
        /\ ~resp.core.raised
        /\ Len(resp.core.value) = Min(resp.n, 4)
        /\ \A i \in DOMAIN resp.core.value :
              /\ i = 1 => resp.core.value[i]._id = "P2"
                           /\ resp.core.value[i].score = 900
              /\ i = 2 => resp.core.value[i]._id = "P3"
                           /\ resp.core.value[i].score = 400
              /\ i >= 3 => resp.core.value[i]._id \in {"P4", "P5"}
                            /\ resp.core.value[i].score = 0
        /\ \A i, j \in DOMAIN resp.core.value :
              i # j => resp.core.value[i]._id # resp.core.value[j]._id

C10_Witness ==
    /\ resp.path = "hybrid"
    /\ resp.n = DEFAULT_N_RECOMMENDATIONS
    /\ Ids(resp.core.value) \in {<<"P2", "P3", "P4", "P5">>,
                                  <<"P2", "P3", "P5", "P4">>}

(***************************************************************************)
(* The rating distribution of format_product_details.  A value of the      *)
(* 'ratingDistribution' field is tagged with its Python type: a list of    *)
(* items (dicts), a dict from keys to counts, or anything else.            *)
(***************************************************************************)
MaxItems == 2

\* str(item['rating']) for the integer ratings of the model
Str(rating) == <<"0", "1", "2", "3", "4", "5", "6">>[rating + 1]

RatingKeys == {"1", "2", "3", "4", "5"}

\* {str(item['rating']): item['count'] for item in rating_dist}, over
\* items[1..k]: a later item replaces an earlier one with the same key
RECURSIVE RatingComprehension(_, _)
RatingComprehension(items, k) ==
    IF k = 0 THEN [key \in {} |-> 0]
    ELSE (Str(items[k].rating) :> items[k].count)
            @@ RatingComprehension(items, k - 1)

\* product_details.get('ratingDistribution', [])
RatingField(product_details) ==
    IF "ratingDistribution" \in DOMAIN product_details
    THEN product_details.ratingDistribution
    ELSE [kind |-> "list", items |-> <<>>]

\* item['rating'] or item['count'] raises KeyError
RatingRaises(product_details) ==
    LET rating_dist == RatingField(product_details)
    IN /\ rating_dist.kind = "list"
       /\ \E i \in DOMAIN rating_dist.items :
             ~({"rating", "count"} \subseteq DOMAIN rating_dist.items[i])

\* rating_dist_dict of format_product_details
rating_dist_dict(product_details) ==
    LET rating_dist == RatingField(product_details)
    IN IF rating_dist.kind = "list"
       THEN RatingComprehension(rating_dist.items, Len(rating_dist.items))
       ELSE IF rating_dist.kind = "dict" THEN rating_dist.map
       ELSE [key \in RatingKeys |-> 0]

\* one call of format_product_details on the entry db_products[1]
FormatEntry ==
    LET product_details == db_products[1]
    IN /\ resp' = [NoResponse EXCEPT
                     !.endpoint = "format",
                     !.product_id = product_details._id,
                     !.core =
                        IF FormatRaises(product_details)
                           \/ RatingRaises(product_details)
                        THEN Raised
                        ELSE Returned(
                               <<format_product_details(product_details, 0)
                                 @@ [ratingDistribution |->
                                        rating_dist_dict(product_details)]>>)]
       /\ UNCHANGED <<interactions_df, products_df, product_similarity_df,
                      db_products, oracle, product_popularity, cache, now,
                      workers>>

RatingItems ==
    [rating : {1, 3, 5}, count : {0, 2}] \cup {[rating |-> 4]}

RatingLists ==
    UNION {[1..len -> RatingItems] : len \in 0..MaxItems}

RatingDicts ==
    { [key \in keys |-> IF key = "5" THEN 2 ELSE 1] : keys \in SUBSET RatingKeys }

RatingInputs ==
    {[kind |-> "list", items |-> items] : items \in RatingLists}
    \cup {[kind |-> "dict", map |-> map] : map \in RatingDicts}
    \cup {[kind |-> "other"]}

InitRating ==
    /\ interactions_df = <<>>
    /\ products_df = <<"P1">>
    /\ product_similarity_df = SimilarityFrame
    /\ db_products \in
          {<<Entry("P1")>>}
          \cup {<<Entry("P1") @@ [ratingDistribution |-> rating_dist]>> :
                   rating_dist \in RatingInputs}
    /\ oracle = {}
    /\ product_popularity = <<>>
    /\ cache = NoFile
    /\ now = 0
    /\ resp = NoResponse
    /\ workers = [w \in Workers |-> Idle]

NextRating == FormatEntry

SpecRating == InitRating /\ [][NextRating]_vars

\* the entry's rating distribution is of one of the two documented forms:
\* a list of {rating, count} items with ratings 1..5, or a mapping keyed by
\* ratings 1..5
RatingDocumented(product_details) ==
    /\ "ratingDistribution" \in DOMAIN product_details
    /\ LET rating_dist == product_details.ratingDistribution
       IN \/ /\ rating_dist.kind = "list"
             /\ \A i \in DOMAIN rating_dist.items :
                   DOMAIN rating_dist.items[i] = {"rating", "count"}
          \/ rating_dist.kind = "dict"

\* C11: for an entry whose rating distribution is a list of {rating, count}
\* items or a keyed mapping, format_product_details returns a mapping with
\* exactly the keys "1".."5".
C11_RatingNormalised ==
    (resp.endpoint = "format" /\ RatingDocumented(db_products[1])) =>
        /\ ~resp.core.raised
        /\ DOMAIN resp.core.value[1].ratingDistribution = RatingKeys

(***************************************************************************)
(* The three paths on popularity tables the service does not control: the  *)
(* table is unpickled as it is, and nothing in the service makes its       *)
(* product ids distinct.                                                   *)
(***************************************************************************)
PopularityTables ==
    { PopularityVersions[1],
      PopularityVersions[2],
      <<Row("P3", 90), Row("P3", 90), Row("P2", 70)>> }

InitTables ==
    /\ interactions_df =
          <<Interaction("U1", "P2"), Interaction("U1", "P1"),
            Interaction("U1", "P2")>>
    /\ products_df = <<"P1", "P2", "P3", "P4">>
    /\ product_similarity_df = SimilarityFrame
    /\ db_products \in Catalogs
    /\ oracle = {}
    /\ product_popularity \in PopularityTables
    /\ cache = NoFile
    /\ now = 0
    /\ resp = NoResponse
    /\ workers = [w \in Workers |-> Idle]

NextTables == UserRequest \/ ProductRequest \/ AdvanceClock

SpecTables == InitTables /\ [][NextTables]_vars

\* C12: on the hybrid, product-anchored and cold-start paths (a list served
\* from the cache included), no product id appears twice in the returned
\* list.
C12_NoDuplicateIds ==
    resp.path \in {"hybrid", "anchored", "cold_start"} =>
        \A i, j \in DOMAIN resp.core.value :
            i # j => resp.core.value[i]._id # resp.core.value[j]._id

\* the raw score of a product id in a scorer's list, 0 when it is not in it
RawScore(recs, product_id) ==
    LET rows == SelectSeq(recs, LAMBDA r : r.product_id = product_id)
    IN IF rows = <<>> THEN 0 ELSE rows[1].score

\* a blend as a set of (product id, score) pairs
ScorePairs(blend) == {<<blend[i].product_id, blend[i].score>> : i \in DOMAIN blend}

\* C13: in a hybrid request the blended score of every candidate is the
\* sum of weight * raw score over the scorer lists that hold it (every
\* returned entry carries that score), the candidates are the union of the
\* three lists, and merging the three lists in any other order gives the
\* same score to every product id.
C13_BlendIsWeightedSum ==
    [][(RequestStep /\ resp'.endpoint = "user" /\ resp'.path = "hybrid")
        => LET n == resp'.n
               u == resp'.user_id
               cf == collaborative_recommendations(u, n * 2)
               cb == content_based_recommendations(u, n * 2)
               pop == popularity_recommendations(u, n * 2)
               wcf == HYBRID_CF_WEIGHT
               wcb == HYBRID_CB_WEIGHT
               wpop == HYBRID_POP_WEIGHT
               Sum(p) == wcf * RawScore(cf, p) + wcb * RawScore(cb, p)
                         + wpop * RawScore(pop, p)
               blend == BlendSorted(cf, cb, pop, wcf, wcb, wpop)
           IN /\ DictKeys(blend) = DictKeys(cf) \cup DictKeys(cb) \cup DictKeys(pop)
              /\ \A i \in DOMAIN blend :
                    blend[i].score = Sum(blend[i].product_id)
              /\ \A i \in DOMAIN resp'.core.value :
                    resp'.core.value[i].score = Sum(resp'.core.value[i]._id)
              /\ \A other \in {BlendSorted(cf, pop, cb, wcf, wpop, wcb),
                                BlendSorted(cb, cf, pop, wcb, wcf, wpop),
                                BlendSorted(cb, pop, cf, wcb, wpop, wcf),
                                BlendSorted(pop, cf, cb, wpop, wcf, wcb),
                                BlendSorted(pop, cb, cf, wpop, wcb, wcf)} :
                    ScorePairs(other) = ScorePairs(blend)]_vars

C13_Witness ==
    /\ resp.endpoint = "user"
    /\ resp.path = "hybrid"
    /\ \E i \in DOMAIN resp.core.value :
          LET p == resp.core.value[i]._id
              n == resp.n
          IN /\ p \in DictKeys(collaborative_recommendations("U1", n * 2))
             /\ p \in DictKeys(content_based_recommendations("U1", n * 2))
             /\ p \in DictKeys(popularity_recommendations("U1", n * 2))
             /\ resp.core.value[i].score >
                  HYBRID_CF_WEIGHT
                    * RawScore(collaborative_recommendations("U1", n * 2), p)

\* the candidates of the collaborative scorer whose three predictions succeed
Predictable(user_id) ==
    {p \in Range(products_df) \ HistoryOf(user_id) :
        \A m \in Models : <<m, p>> \notin oracle}

\* 0.4 * svd + 0.2 * nmf + 0.4 * knn, in hundredths
EnsembleScore(p) ==
    (4 * Estimate("svd", p) + 2 * Estimate("nmf", p) + 4 * Estimate("knn", p))
        \div 10

\* C14: the output of collaborative_recommendations(user, n) holds only
\* candidates whose three predictions succeed, each once and with score
\* 0.4*svd + 0.2*nmf + 0.4*knn; a failed prediction removes its candidate
\* and nothing else: the output is the min(n, number of such candidates)
\* best of them, in descending order of score.
C14_FailedCandidateSkipped ==
    \A user_id \in Users, n \in 0..(2 * MaxN) :
        LET out == collaborative_recommendations(user_id, n)
            ids == {out[i].product_id : i \in DOMAIN out}
        IN /\ ids \subseteq Predictable(user_id)
           /\ Len(out) = Min(n, Cardinality(Predictable(user_id)))
           /\ Cardinality(ids) = Len(out)
           /\ \A i \in DOMAIN out :
                 out[i].score = EnsembleScore(out[i].product_id)
           /\ \A i, j \in DOMAIN out : i < j => out[i].score >= out[j].score
           /\ \A p \in Predictable(user_id) \ ids :
                 \A i \in DOMAIN out : out[i].score >= EnsembleScore(p)

C14_Witness ==
    /\ resp.path = "hybrid"
    /\ "collaborative_recommendations" \in resp.called
    /\ oracle = {<<"svd", "P3">>}
    /\ "P3" \notin HistoryOf(resp.user_id)
    /\ ProductIds(collaborative_recommendations(resp.user_id, 2 * resp.n))
          \in {<<"P2", "P4">>, <<"P4", "P2">>}

\* content_weight*similarity + cf_weight*c + pop_weight*p of the claim, for
\* an anchor with a similarity row
AnchoredSum(user_id, anchor, candidate) ==
    ANCHOR_CONTENT_WEIGHT * product_similarity_df.at[<<candidate, anchor>>]
    + ANCHOR_CF_WEIGHT *
        (IF HistoryOf(user_id) = {} \/ <<"svd", candidate>> \in oracle
         THEN 0 ELSE Estimate("svd", candidate))
    + ANCHOR_POP_WEIGHT * RawScore(product_popularity, candidate)

CacheUsable ==
    /\ cache.exists
    /\ JsonLoad(cache.content).ok
    /\ now - JsonLoad(cache.content).timestamp < CACHE_DURATION_HOURS

\* C16 (as stated): after a cold-start request that finds the cache
\* missing, expired or unreadable and whose write does not fail, the cache
\* file holds the list of that request stamped with the time of the
\* request.
C16_Original ==
    [][(ColdStartCall /\ ~CacheUsable /\ resp'.write # "failed")
        => /\ cache'.exists
           /\ JsonLoad(cache'.content) =
                [ok |-> TRUE, timestamp |-> now,
                 recommendations |-> resp'.core.value]]_vars

\* C16 (amended): after a cold-start request that finds the cache missing,
\* expired or unreadable and whose write does not fail, the cache file
\* holds the list of that request stamped with the time of the request if
\* that list is not empty, and is left as it was if it is empty (nothing is
\* written); and a cold-start request that follows a writing one within the
\* 120 hours is served that list from the cache.
C16_CacheRefreshed ==
    [][/\ (ColdStartCall /\ ~CacheUsable /\ resp'.write # "failed")
          => IF resp'.core.value # <<>>
             THEN /\ resp'.write = "ok"
                  /\ cache'.exists
                  /\ JsonLoad(cache'.content) =
                       [ok |-> TRUE, timestamp |-> now,
                        recommendations |-> resp'.core.value]
             ELSE resp'.write = "none" /\ cache' = cache
       /\ (/\ ColdStartCall
           /\ resp.path = "cold_start"
           /\ resp.write = "ok"
           /\ now - JsonLoad(cache.content).timestamp < CACHE_DURATION_HOURS)
          => /\ resp'.from_cache
             /\ resp'.core = resp.core
             /\ cache' = cache]_vars

C16_Witness ==
    /\ resp.path = "cold_start"
    /\ resp.read_error
    /\ resp.write = "ok"
    /\ now > 0
    /\ JsonLoad(cache.content).timestamp = now
    /\ JsonLoad(cache.content).recommendations = resp.core.value

\* C17: every cold-start response holds at most n_recommendations entries,
\* a response served from the cache included.
C17_ColdStartAtMostN ==
    resp.path = "cold_start" => Len(resp.core.value) <= resp.n

\* C18: no product returned by a product-anchored call, the calls that
\* fall back to the cold-start path included, is the anchor or a product
\* the user has interacted with.
C18_AnchorAndHistoryExcluded ==
    resp.endpoint = "product" =>
        \A i \in DOMAIN resp.core.value :
            /\ resp.core.value[i]._id # resp.product_id
            /\ resp.core.value[i]._id \notin HistoryOf(resp.user_id)

=============================================================================
